---------------------------- MODULE Spec2Model ----------------------------
(***************************************************************************)
(* aioapp: the AMQP connection supervisor (Amqp), its channels (Channel)   *)
(* and the bounded connect loop of the Redis component, as state machines. *)
(*                                                                         *)
(* The program runs on one cooperative event loop: a coroutine runs        *)
(* without interruption from one await to the next.  Every action below    *)
(* is therefore "the resumption of one coroutine at an await, and all the  *)
(* synchronous code it runs up to its next await".  The broker library     *)
(* (aioamqp) and the store library (aioredis) are the environment: the     *)
(* outcome of each awaited library call is chosen nondeterministically.    *)
(***************************************************************************)
EXTENDS Integers, Sequences, FiniteSets

(* ------------------------------ bounds -------------------------------- *)
NumChannels == 2      \* channels configured on the supervisor
MaxAttempts == 2      \* connect_max_attempts ranges over 0..MaxAttempts
MaxErrors == 2        \* broker error callbacks the environment fires
MaxFailures == 1      \* failed library calls outside prepare()
MaxInFlight == 2      \* consumer callbacks in flight on one channel
MaxRestarts == 2      \* Channel.start() calls of the host on a started channel
MaxConns == 4         \* connections from_url establishes in one run
MaxNames == 4         \* channels in the list given to the constructor
MaxName == 2          \* distinct channel names

(* ------------------------- program constants -------------------------- *)
STOP_TIMEOUT == 5

Channels == 1..NumChannels
Tasks == 0..MaxErrors          \* 0: the host's task; 1..: reconnect tasks
Main == 0
None == 0                      \* Python's None for object references

VARIABLES
    \* Amqp
    connect_max_attempts, started, shutting_down, consuming,
    transport, protocol,
    \* broker library objects: connections made by from_url, channel handles
    conns, handles,
    \* Channel, one per configured channel
    ch_channel, ch_stopping, ch_cons_cnt, ch_cons_fut, ch_cons_tag,
    \* coroutines: the operation each task runs, the await it is suspended
    \* at, the channel its loop is at, the object its pending call was made
    \* on; prepare()'s loop variable i; in Channel.stop(), the exception
    \* pending in the finally block and the time left to wait_for
    op, pc, ci, cap, prep_i, exc, timer,
    \* the environment: failures and error callbacks used so far, and
    \* whether the library awaits a consumer callback before it reads on
    nfail, nerr, lib_awaits,
    \* Redis
    r_max_attempts, r_pc, r_i, r_pool,
    \* observation only: connect attempts made by prepare() and how each
    \* ended, callbacks between entry and exit of the handler, those of
    \* them that were in flight when stop() was called, channels visited
    \* by the loop a task is in, ticks since stop() was requested, what
    \* the last Channel.stop() ended with, InvalidStateError raised by
    \* set_result
    attempts, outcomes, r_attempts, r_outcomes, inHandler, oldLeft, log,
    elapsed, lastStop, invalid,
    \* Amqp.__init__: the names of the channels it is given (None: no
    \* name) and how it ended
    ch_names, ctor,
    \* one operation of a Channel or of the store called by the host, with
    \* what it was given and what was seen of it; connections acquired
    \* from the store's pool and not released; whether the channel handle
    \* a declare opened for itself is open
    call, pool_out, tmp_open,
    \* observation only: how the last consumer callback ended, and the
    \* error the last consume() call raised for its handler argument
    lastExit, lastConsume

supVars == <<connect_max_attempts, started, shutting_down, consuming,
             transport, protocol>>
libVars == <<conns, handles>>
chVars == <<ch_channel, ch_stopping, ch_cons_cnt, ch_cons_fut, ch_cons_tag>>
taskVars == <<op, pc, ci, cap, prep_i, exc, timer>>
envVars == <<nfail, nerr, lib_awaits>>
redisVars == <<r_max_attempts, r_pc, r_i, r_pool, r_attempts, r_outcomes>>
obsVars == <<attempts, outcomes, inHandler, oldLeft, log, elapsed, lastStop,
            invalid>>
callVars == <<ch_names, ctor, call, pool_out, tmp_open>>
cbVars == <<lastExit, lastConsume>>
vars == <<supVars, libVars, chVars, taskVars, envVars, redisVars, obsVars,
          callVars, cbVars>>

(* ----------------------------- Amqp.__init__ -------------------------- *)
AmqpInit ==
    /\ connect_max_attempts \in 0..MaxAttempts
    /\ started = FALSE
    /\ shutting_down = FALSE
    /\ consuming = FALSE
    /\ transport = None
    /\ protocol = None

ChannelInit ==
    /\ ch_channel = [c \in Channels |-> None]
    /\ ch_stopping = [c \in Channels |-> FALSE]
    /\ ch_cons_cnt = [c \in Channels |-> 0]
    /\ ch_cons_fut = [c \in Channels |-> "none"]
    /\ ch_cons_tag = [c \in Channels |-> FALSE]

RedisInit ==
    /\ r_max_attempts \in 0..MaxAttempts
    /\ r_pc = "init"
    /\ r_i = 0
    /\ r_pool = FALSE
    /\ r_attempts = 0
    /\ r_outcomes = <<>>

TaskInit ==
    /\ op = [t \in Tasks |-> "none"]
    /\ pc = [t \in Tasks |-> "init"]
    /\ ci = [t \in Tasks |-> 0]
    /\ cap = [t \in Tasks |-> None]
    /\ prep_i = 0
    /\ exc = "none"
    /\ timer = 0

ObsInit ==
    /\ attempts = 0
    /\ outcomes = <<>>
    /\ inHandler = [c \in Channels |-> 0]
    /\ oldLeft = [c \in Channels |-> 0]
    /\ log = [t \in Tasks |-> <<>>]
    /\ elapsed = 0
    /\ lastStop = [ret |-> "none", cnt |-> 0, old |-> 0, elapsed |-> 0,
                   closed |-> FALSE]
    /\ invalid = FALSE

\* A supervisor constructed with unnamed channels; no operation of a
\* channel or of the store called yet.
(* -------------------- message properties and headers ------------------ *)
\* The keys context.make_headers() produces, and a key of the caller.
TraceKeys == {"X-B3-TraceId", "X-B3-SpanId"}
UserKeys == {"x-user"}

EmptyHeaders == [k \in {} |-> "usr"]

\* "headers = context_span.context.make_headers()"
MakeHeaders == [k \in TraceKeys |-> "ctx"]

\* The header dicts a caller supplies: any of the keys, its own values.
CallerHeaders == UNION {[K -> {"usr"}] : K \in SUBSET (TraceKeys \cup UserKeys)}

\* The properties argument of publish(): None, a dict without 'headers',
\* a dict with 'headers'.
NoProps == [dict |-> FALSE, has_headers |-> FALSE, headers |-> EmptyHeaders]

PropsArgs ==
    {NoProps,
     [dict |-> TRUE, has_headers |-> FALSE, headers |-> EmptyHeaders]}
    \cup {[dict |-> TRUE, has_headers |-> TRUE, headers |-> h] :
             h \in CallerHeaders}

\* No operation called: the record of an operation before its call.
IdleCall ==
    [op |-> "none", pc |-> "idle", span |-> FALSE, propagate |-> FALSE,
     props |-> NoProps, sent |-> NoProps, prims |-> 0, outcome |-> "none",
     fin |-> <<>>, acq_fin |-> <<>>, acq |-> 0, rel |-> 0, ret |-> "none"]

OpsIdle ==
    /\ call = IdleCall
    /\ pool_out = 0
    /\ tmp_open = FALSE

CallInit ==
    /\ ch_names = [j \in 1..NumChannels |-> None]
    /\ ctor = "ok"
    /\ OpsIdle

CbInit ==
    /\ lastExit = [raised |-> FALSE, out |-> "none"]
    /\ lastConsume = "none"

\* Both components constructed, with any configured number of attempts.
PrepareInit ==
    /\ AmqpInit /\ ChannelInit /\ RedisInit /\ TaskInit /\ ObsInit
    /\ CallInit /\ CbInit
    /\ conns = <<>>
    /\ handles = <<>>
    /\ nfail = 0
    /\ nerr = 0
    /\ lib_awaits = TRUE

\* The run of the supervisor: the Redis component stays as constructed.
Init ==
    /\ PrepareInit
    /\ r_max_attempts = MaxAttempts

(* ------------------------- where a call continues --------------------- *)
\* _connect() starts with "await self._cleanup()", which awaits
\* protocol.close() only when a protocol is held; then it awaits from_url.
ConnectPc(prot) == IF prot # None THEN "cleanup_wait" ELSE "from_url"

\* Where an exception raised inside the operation o is caught, and the
\* await (or end) the task reaches from there.
RaisePc(o) ==
    CASE o = "prepare" -> "prepare_sleep"     \* except: log, sleep
      [] o = "reconnect" -> "scheduled"       \* except: log, async_call
      [] o = "start" -> "start_failed"        \* propagates to the host
      [] o = "stop" -> "stop_failed"          \* propagates to the host
      [] OTHER -> "started"                   \* a Channel method: to the host

\* Where the operation o ends when _connect() / _start_channels() returns.
ReturnPc(o) ==
    CASE o = "prepare" -> "prepared"
      [] o = "reconnect" -> "done"
      [] OTHER -> "started"

(* ------------------------------ Amqp.prepare -------------------------- *)
\* One pass of "for i in range(self.connect_max_attempts)": the body calls
\* _connect(); a finished range raises PrepareError.
PrepareRangeMut(i) == i <= connect_max_attempts
PrepareRange(i) == i < connect_max_attempts

PrepareIter(i) ==
    IF PrepareRange(i)
    THEN /\ attempts' = attempts + 1
         /\ pc' = [pc EXCEPT ![Main] = ConnectPc(protocol)]
         /\ cap' = [cap EXCEPT ![Main] = protocol]
         /\ prep_i' = i
    ELSE /\ attempts' = attempts
         /\ pc' = [pc EXCEPT ![Main] = "prepare_failed"]
         /\ UNCHANGED <<cap, prep_i>>

Prepare ==
    /\ ctor = "ok"
    /\ op[Main] = "none" /\ pc[Main] = "init"
    /\ op' = [op EXCEPT ![Main] = "prepare"]
    /\ PrepareIter(0)
    /\ UNCHANGED <<callVars, cbVars,
                   supVars, libVars, chVars, ci, exc, timer, envVars,
                   redisVars, outcomes, inHandler, oldLeft, log, elapsed,
                   lastStop, invalid>>

\* "await asyncio.sleep(self.connect_retry_delay)" is over.
PrepareSleepDone ==
    /\ op[Main] = "prepare" /\ pc[Main] = "prepare_sleep"
    /\ PrepareIter(prep_i + 1)
    /\ UNCHANGED <<callVars, cbVars,
                   supVars, libVars, chVars, op, ci, exc, timer, envVars,
                   redisVars, outcomes, inHandler, oldLeft, log, elapsed,
                   lastStop, invalid>>

(* ------------------------- the broker library ------------------------- *)
\* The handles after connection k went away: the library marks every
\* channel of a closed connection closed, and its consumers are gone.
CloseConnHandles(k) ==
    [h \in DOMAIN handles |->
        IF handles[h].conn = k
        THEN [handles[h] EXCEPT !.open = FALSE, !.consumer = FALSE]
        ELSE handles[h]]

\* The handles after handle h was closed.
CloseHandle(h) ==
    [g \in DOMAIN handles |->
        IF g = h
        THEN [handles[g] EXCEPT !.open = FALSE, !.consumer = FALSE]
        ELSE handles[g]]

CloseConn(k) ==
    [j \in DOMAIN conns |->
        IF j = k THEN [conns[j] EXCEPT !.live = FALSE] ELSE conns[j]]

(* ---------------------- Channel.start / Channel.open ------------------ *)
\* Channel.start() sets _stopping = False and calls open(): open() awaits
\* close() of the handle it holds ("if self.channel"), then evaluates
\* self.amqp._protocol.channel(), which raises at once on None.
StartPc(o, c, prot) ==
    IF ch_channel[c] # None THEN "ch_close"
    ELSE IF prot = None THEN RaisePc(o) ELSE "ch_acquire"

StartCap(c, prot) == IF ch_channel[c] # None THEN ch_channel[c] ELSE prot

\* The operation a task is in once it reached p: a Channel method called by
\* the host returns to the host, whose supervisor is started.
AfterOp(o, p) == IF p = "started" THEN "start" ELSE o

\* Task t, in operation o, calls start() of channel c while the supervisor
\* holds prot; lg is the list of channels its loop visited so far.
ChStartCall(t, o, c, prot, lg) ==
    /\ ch_stopping' = [ch_stopping EXCEPT ![c] = FALSE]
    /\ ci' = [ci EXCEPT ![t] = c]
    /\ log' = [log EXCEPT ![t] = Append(lg, c)]
    /\ pc' = [pc EXCEPT ![t] = StartPc(o, c, prot)]
    /\ op' = [op EXCEPT ![t] = AfterOp(o, StartPc(o, c, prot))]
    /\ cap' = [cap EXCEPT ![t] = StartCap(c, prot)]

\* The channel after c in the list S a loop runs over; 0 at its end.
NextIn(S, c) ==
    LET j == CHOOSE i \in 1..Len(S) : S[i] = c
    IN IF j < Len(S) THEN S[j + 1] ELSE 0

\* _start_channels: "for ch in self._channels".
StartSeq == [j \in 1..NumChannels |-> j]

\* open(): the awaited close() of the old handle is over (a failure of it
\* is logged and swallowed); now "self.amqp._protocol.channel()".
ChCloseDone(t) ==
    /\ pc[t] = "ch_close"
    /\ handles' = CloseHandle(cap[t])
    /\ pc' = [pc EXCEPT ![t] =
                 IF protocol = None THEN RaisePc(op[t]) ELSE "ch_acquire"]
    /\ op' = [op EXCEPT ![t] =
                 IF protocol = None THEN AfterOp(op[t], RaisePc(op[t]))
                 ELSE op[t]]
    /\ cap' = [cap EXCEPT ![t] = protocol]
    /\ UNCHANGED <<callVars, cbVars,
                   supVars, conns, chVars, ci, prep_i, exc, timer, envVars,
                   redisVars, obsVars>>

\* open(): "self.channel = await ...channel()" got its handle; start()
\* returns, and a loop of _start_channels goes on to the next channel.
ChAcquireOk(t) ==
    /\ pc[t] = "ch_acquire"
    /\ cap[t] \in DOMAIN conns /\ conns[cap[t]].live
    /\ LET c == ci[t]
           h == Len(handles) + 1
       IN /\ handles' = Append(handles, [conn |-> cap[t], ch |-> c,
                                          open |-> TRUE, consumer |-> FALSE])
          /\ ch_channel' = [ch_channel EXCEPT ![c] = h]
          /\ IF op[t] # "ch_start" /\ NextIn(StartSeq, c) # 0
             THEN ChStartCall(t, op[t], NextIn(StartSeq, c), protocol, log[t])
             ELSE /\ pc' = [pc EXCEPT ![t] = ReturnPc(op[t])]
                  /\ op' = [op EXCEPT ![t] = AfterOp(op[t], ReturnPc(op[t]))]
                  /\ UNCHANGED <<ch_stopping, ci, log, cap>>
    /\ UNCHANGED <<callVars, cbVars,
                   supVars, conns, ch_cons_cnt, ch_cons_fut, ch_cons_tag,
                   prep_i, exc, timer, envVars, redisVars, attempts,
                   outcomes, inHandler, oldLeft, elapsed, lastStop, invalid>>

\* open(): ...channel() raised: always on a connection that is gone, and
\* within the failure budget on a live one.
ChAcquireFail(t) ==
    /\ pc[t] = "ch_acquire"
    /\ LET dead == ~(cap[t] \in DOMAIN conns /\ conns[cap[t]].live)
       IN /\ dead \/ nfail < MaxFailures
          /\ nfail' = IF dead THEN nfail ELSE nfail + 1
    /\ pc' = [pc EXCEPT ![t] = RaisePc(op[t])]
    /\ op' = [op EXCEPT ![t] = AfterOp(op[t], RaisePc(op[t]))]
    /\ UNCHANGED <<callVars, cbVars,
                   supVars, libVars, chVars, ci, cap, prep_i, exc, timer,
                   nerr, lib_awaits, redisVars, obsVars>>

(* -------------------- Amqp._connect / Amqp._cleanup ------------------- *)
\* _cleanup(): the awaited protocol.close() is over (a failure of it is
\* logged and swallowed); then "_protocol = None; _transport = None".
\* _connect() goes on to from_url; stop() is finished.
CleanupDone(t) ==
    /\ pc[t] = "cleanup_wait"
    /\ conns' = CloseConn(cap[t])
    /\ handles' = CloseConnHandles(cap[t])
    /\ protocol' = None
    /\ transport' = None
    /\ pc' = [pc EXCEPT ![t] = IF op[t] = "stop" THEN "stopped" ELSE "from_url"]
    /\ UNCHANGED <<callVars, cbVars,
                   connect_max_attempts, started, shutting_down, consuming,
                   chVars, op, ci, cap, prep_i, exc, timer, envVars,
                   redisVars, obsVars>>

\* from_url returned a transport and a protocol; "if self._started:
\* await self._start_channels()".
FromUrlOk(t) ==
    /\ pc[t] = "from_url"
    /\ Len(conns) < MaxConns
    /\ outcomes' = IF op[t] = "prepare" THEN Append(outcomes, "ok")
                   ELSE outcomes
    /\ LET k == Len(conns) + 1
       IN /\ conns' = Append(conns, [live |-> TRUE, errored |-> FALSE])
          /\ protocol' = k
          /\ transport' = k
          /\ IF started
             THEN /\ consuming' = TRUE
                  /\ ChStartCall(t, op[t], StartSeq[1], k, <<>>)
             ELSE /\ pc' = [pc EXCEPT ![t] = ReturnPc(op[t])]
                  /\ UNCHANGED <<consuming, ch_stopping, ci, log, cap, op>>
    /\ UNCHANGED <<callVars, cbVars,
                   connect_max_attempts, started, shutting_down, handles,
                   ch_channel, ch_cons_cnt, ch_cons_fut, ch_cons_tag, prep_i,
                   exc, timer, envVars, redisVars, attempts, inHandler, oldLeft,
                   elapsed, lastStop, invalid>>

\* from_url raised: any number of times inside prepare() (its loop is
\* bounded), within the failure budget in a reconnect.
FromUrlFail(t) ==
    /\ pc[t] = "from_url"
    /\ op[t] = "prepare" \/ nfail < MaxFailures
    /\ nfail' = IF op[t] = "prepare" THEN nfail ELSE nfail + 1
    /\ outcomes' = IF op[t] = "prepare" THEN Append(outcomes, "fail")
                   ELSE outcomes
    /\ pc' = [pc EXCEPT ![t] = RaisePc(op[t])]
    /\ UNCHANGED <<callVars, cbVars,
                   supVars, libVars, chVars, op, ci, cap, prep_i, exc, timer,
                   nerr, lib_awaits, redisVars, attempts, inHandler, oldLeft,
                   log, elapsed, lastStop, invalid>>

(* ------------------------------ Redis.prepare ------------------------- *)
RedisRange(i) == i < r_max_attempts

RedisIter(i) ==
    IF RedisRange(i)
    THEN /\ r_attempts' = r_attempts + 1
         /\ r_pc' = "create_pool"
         /\ r_i' = i
    ELSE /\ r_pc' = "prepare_failed"
         /\ UNCHANGED <<r_attempts, r_i>>

RedisPrepare ==
    /\ r_pc = "init"
    /\ RedisIter(0)
    /\ UNCHANGED <<callVars, cbVars,
                   supVars, libVars, chVars, taskVars, envVars,
                   r_max_attempts, r_pool, r_outcomes, obsVars>>

\* _connect(): create_pool returned the pool; prepare() returns.
RedisConnectOk ==
    /\ r_pc = "create_pool"
    /\ r_pool' = TRUE
    /\ r_pc' = "prepared"
    /\ r_outcomes' = Append(r_outcomes, "ok")
    /\ UNCHANGED <<callVars, cbVars,
                   supVars, libVars, chVars, taskVars, envVars,
                   r_max_attempts, r_i, r_attempts, obsVars>>

\* _connect(): create_pool raised; prepare() logs and sleeps.
RedisConnectFail ==
    /\ r_pc = "create_pool"
    /\ r_pc' = "prepare_sleep"
    /\ r_outcomes' = Append(r_outcomes, "fail")
    /\ UNCHANGED <<callVars, cbVars,
                   supVars, libVars, chVars, taskVars, envVars,
                   r_max_attempts, r_i, r_pool, r_attempts, obsVars>>

RedisSleepDone ==
    /\ r_pc = "prepare_sleep"
    /\ RedisIter(r_i + 1)
    /\ UNCHANGED <<callVars, cbVars,
                   supVars, libVars, chVars, taskVars, envVars,
                   r_max_attempts, r_pool, r_outcomes, obsVars>>

(* ------------------- the two connect loops, side by side -------------- *)
PrepareNext ==
    \/ Prepare
    \/ PrepareSleepDone
    \/ FromUrlOk(Main)
    \/ FromUrlFail(Main)
    \/ RedisPrepare
    \/ RedisConnectOk
    \/ RedisConnectFail
    \/ RedisSleepDone

SpecPrepare == PrepareInit /\ [][PrepareNext]_vars

(* ------------------------- Amqp.__init__, name check ------------------ *)
\* "names = [ch.name for ch in channels if ch.name is not None]"
NonNullNamesMut(ns) == ns
NonNullNames(ns) == SelectSeq(ns, LAMBDA n : n # None)

SeqSet(s) == {s[j] : j \in 1..Len(s)}

\* "if channels: ... if len(names) != len(set(names)): raise UserWarning"
NotUnique(ns) ==
    /\ Len(ns) > 0
    /\ Len(NonNullNames(ns)) # Cardinality(SeqSet(NonNullNames(ns)))

\* The constructor runs to its end or raises; it awaits nothing.
Construct ==
    /\ ctor = "none"
    /\ ctor' = IF NotUnique(ch_names) THEN "UserWarning" ELSE "ok"
    /\ UNCHANGED <<supVars, libVars, chVars, taskVars, envVars, redisVars,
                   obsVars, ch_names, call, pool_out, tmp_open, cbVars>>

\* A supervisor about to be constructed with any list of channels.
ConstructInit ==
    /\ AmqpInit /\ connect_max_attempts = MaxAttempts
    /\ ChannelInit /\ TaskInit /\ ObsInit /\ CbInit
    /\ RedisInit /\ r_max_attempts = MaxAttempts
    /\ conns = <<>>
    /\ handles = <<>>
    /\ nfail = 0
    /\ nerr = 0
    /\ lib_awaits = TRUE
    /\ ch_names \in UNION {[1..n -> 0..MaxName] : n \in 0..MaxNames}
    /\ ctor = "none"
    /\ OpsIdle

ConstructNext ==
    \/ Construct
    \/ Prepare
    \/ PrepareSleepDone
    \/ FromUrlOk(Main)
    \/ FromUrlFail(Main)

SpecConstruct == ConstructInit /\ [][ConstructNext]_vars

(* ------------------------------ Amqp.start ---------------------------- *)
\* The host calls start() after prepare() returned: "_started = True",
\* then _start_channels(): "_consuming = True" and the loop.
AmqpStart ==
    /\ op[Main] = "prepare" /\ pc[Main] = "prepared"
    /\ started' = TRUE
    /\ consuming' = TRUE
    /\ ChStartCall(Main, "start", StartSeq[1], protocol, <<>>)
    /\ UNCHANGED <<callVars, cbVars,
                   connect_max_attempts, shutting_down, transport, protocol,
                   libVars, ch_channel, ch_cons_cnt, ch_cons_fut,
                   ch_cons_tag, prep_i, exc, timer, envVars, redisVars,
                   attempts, outcomes, inHandler, oldLeft, elapsed, lastStop,
                   invalid>>

(* ----------------------- Amqp._con_error / _reconnect ----------------- *)
\* The library reports an error of connection k (once per connection): the
\* connection and its channels are gone.  _con_error returns when the
\* supervisor is shutting down or not started, and otherwise schedules
\* _reconnect with async_call(delay): a new task, not yet running.
ConErrorGuardMut == shutting_down
ConErrorGuard == shutting_down \/ ~started

ConError(k) ==
    /\ k \in DOMAIN conns
    /\ ~conns[k].errored
    /\ nerr < MaxErrors
    /\ nerr' = nerr + 1
    /\ conns' = [conns EXCEPT ![k] = [live |-> FALSE, errored |-> TRUE]]
    /\ handles' = CloseConnHandles(k)
    /\ IF ConErrorGuard
       THEN UNCHANGED <<op, pc>>
       ELSE /\ op' = [op EXCEPT ![nerr + 1] = "reconnect"]
            /\ pc' = [pc EXCEPT ![nerr + 1] = "scheduled"]
    /\ UNCHANGED <<callVars, cbVars,
                   supVars, chVars, ci, cap, prep_i, exc, timer, nfail,
                   lib_awaits, redisVars, obsVars>>

\* The delay is over and _reconnect runs: "await self._connect()".  The
\* same action is the run rescheduled by its except clause.
ReconnectRun(t) ==
    /\ op[t] = "reconnect" /\ pc[t] = "scheduled"
    /\ pc' = [pc EXCEPT ![t] = ConnectPc(protocol)]
    /\ cap' = [cap EXCEPT ![t] = protocol]
    /\ UNCHANGED <<callVars, cbVars,
                   supVars, libVars, chVars, op, ci, prep_i, exc, timer,
                   envVars, redisVars, obsVars>>

(* ------------------------------ Channel.stop -------------------------- *)
\* _stop_channels: "for ch in reversed(self._channels)".
StopSeqMut == [j \in 1..NumChannels |-> j]
StopSeq == [j \in 1..NumChannels |-> NumChannels + 1 - j]

\* stop() of channel c reaches an await: basic_cancel and close() need a
\* handle, wait_for needs callbacks in flight and a future.
Suspends(c) ==
    \/ ch_channel[c] # None
    \/ ch_cons_cnt[c] > 0 /\ ch_cons_fut[c] # "none"

\* The channels whose stop() a loop over S runs through, from c on, before
\* the task is suspended: a stop() that awaits nothing returns at once.
RECURSIVE Visit(_, _)
Visit(S, c) ==
    IF c = 0 THEN <<>>
    ELSE IF Suspends(c) THEN <<c>>
    ELSE <<c>> \o Visit(S, NextIn(S, c))

InSeq(x, s) == \E j \in 1..Len(s) : s[j] = x

\* "if self._cons_cnt > 0 and self._cons_fut: await wait_for(...)", and
\* "finally: await self.close()".
WaitGuard(c) == ch_cons_cnt[c] > 0 /\ ch_cons_fut[c] # "none"

WaitPc(c) == IF WaitGuard(c) THEN "ch_wait" ELSE "ch_stopclose"

\* The await stop() of channel c reaches first.
StopPc(c) ==
    IF ch_cons_tag[c] /\ ch_channel[c] # None THEN "ch_cancel" ELSE WaitPc(c)

\* What the supervisor's stop() does after _stop_channels(): _cleanup().
CleanupPc(prot) == IF prot # None THEN "cleanup_wait" ELSE "stopped"

\* What Channel.stop() of channel c ended with, for the observer.
StopRecord(c, how, hs) ==
    [ret |-> how, cnt |-> ch_cons_cnt[c], old |-> oldLeft[c],
     elapsed |-> elapsed,
     closed |-> ch_channel[c] = None \/ ~hs[ch_channel[c]].open]

\* Task t calls stop() of the channels vis, one after the other (all but
\* the last return without awaiting); lg is what its loop visited before.
\* "self._stopping = True"; a consumer tag without a handle is dropped by
\* basic_cancel's except/finally.
ChStopCall(t, o, vis, lg, prev) ==
    LET c == vis[Len(vis)]
        p == IF Suspends(c) THEN StopPc(c)
             ELSE IF o = "stop" THEN CleanupPc(protocol) ELSE "started"
    IN /\ ch_stopping' = [x \in Channels |->
                            IF InSeq(x, vis) THEN TRUE ELSE ch_stopping[x]]
       /\ ch_cons_tag' = [x \in Channels |->
                            IF InSeq(x, vis) /\ ch_channel[x] = None
                            THEN FALSE ELSE ch_cons_tag[x]]
       /\ log' = [log EXCEPT ![t] = lg \o vis]
       /\ ci' = [ci EXCEPT ![t] = c]
       /\ pc' = [pc EXCEPT ![t] = p]
       /\ op' = [op EXCEPT ![t] = AfterOp(o, p)]
       /\ cap' = [cap EXCEPT ![t] =
                    IF p = "cleanup_wait" THEN protocol ELSE ch_channel[c]]
       /\ timer' = STOP_TIMEOUT
       /\ exc' = "none"
       /\ elapsed' = 0
       /\ oldLeft' = [x \in Channels |->
                        IF InSeq(x, vis) THEN inHandler[x] ELSE oldLeft[x]]
       /\ lastStop' = IF Suspends(c) THEN prev
                      ELSE StopRecord(c, "returned", handles)

\* basic_cancel is over (a failure of it is logged): "finally:
\* self._cons_tag = None".  The broker stops delivering to the consumer.
ChCancelDone(t) ==
    /\ pc[t] = "ch_cancel"
    /\ LET c == ci[t]
       IN /\ handles' = [h \in DOMAIN handles |->
                           IF h = cap[t]
                           THEN [handles[h] EXCEPT !.consumer = FALSE]
                           ELSE handles[h]]
          /\ ch_cons_tag' = [ch_cons_tag EXCEPT ![c] = FALSE]
          /\ pc' = [pc EXCEPT ![t] = WaitPc(c)]
          /\ cap' = [cap EXCEPT ![t] = ch_channel[c]]
    /\ UNCHANGED <<callVars, cbVars,
                   supVars, conns, ch_channel, ch_stopping, ch_cons_cnt,
                   ch_cons_fut, op, ci, prep_i, exc, timer, envVars,
                   redisVars, obsVars>>

\* One unit of time passes while wait_for waits on a pending future.
Tick ==
    /\ pc[Main] = "ch_wait"
    /\ ch_cons_fut[ci[Main]] = "pending"
    /\ timer > 0
    /\ timer' = timer - 1
    /\ elapsed' = elapsed + 1
    /\ UNCHANGED <<callVars, cbVars,
                   supVars, libVars, chVars, op, pc, ci, cap, prep_i, exc,
                   envVars, redisVars, attempts, outcomes, inHandler, oldLeft,
                   log, lastStop, invalid>>

\* wait_for ends because its future is done: resolved, it returns;
\* cancelled, it raises CancelledError.  "finally: await self.close()".
ChWaitDone(t) ==
    /\ pc[t] = "ch_wait"
    /\ ch_cons_fut[ci[t]] \in {"resolved", "cancelled"}
    /\ exc' = IF ch_cons_fut[ci[t]] = "cancelled" THEN "CancelledError"
              ELSE "none"
    /\ pc' = [pc EXCEPT ![t] = "ch_stopclose"]
    /\ cap' = [cap EXCEPT ![t] = ch_channel[ci[t]]]
    /\ UNCHANGED <<callVars, cbVars,
                   supVars, libVars, chVars, op, ci, prep_i, timer, envVars,
                   redisVars, obsVars>>

\* wait_for ends because STOP_TIMEOUT elapsed: it cancels the future and
\* raises TimeoutError.  "finally: await self.close()".
ChWaitTimeout(t) ==
    /\ pc[t] = "ch_wait"
    /\ ch_cons_fut[ci[t]] = "pending"
    /\ timer = 0
    /\ ch_cons_fut' = [ch_cons_fut EXCEPT ![ci[t]] = "cancelled"]
    /\ exc' = "TimeoutError"
    /\ pc' = [pc EXCEPT ![t] = "ch_stopclose"]
    /\ cap' = [cap EXCEPT ![t] = ch_channel[ci[t]]]
    /\ UNCHANGED <<callVars, cbVars,
                   supVars, libVars, ch_channel, ch_stopping, ch_cons_cnt,
                   ch_cons_tag, op, ci, prep_i, timer, envVars, redisVars,
                   obsVars>>

\* Whether Channel.stop() raises after its finally block: the exception
\* pending from wait_for, or the one close() raised on a handle that was
\* closed already.
StopRaises(e, h) == e # "none" \/ (h # None /\ ~handles[h].open)

\* The close() in stop()'s finally block is over: stop() raises or
\* returns; the supervisor's loop goes on to the next channel, and after
\* the last one to _cleanup().
ChStopCloseDone(t) ==
    /\ pc[t] = "ch_stopclose"
    /\ LET c == ci[t]
           hs == IF cap[t] = None THEN handles ELSE CloseHandle(cap[t])
           raises == StopRaises(exc, cap[t])
           nxt == NextIn(StopSeq, c)
       IN /\ handles' = hs
          /\ IF ~raises /\ op[t] = "stop" /\ nxt # 0
             THEN /\ ChStopCall(t, op[t], Visit(StopSeq, nxt), log[t],
                                 StopRecord(c, "returned", hs))
                  /\ UNCHANGED <<ch_cons_fut>>
             ELSE /\ lastStop' = StopRecord(c, IF raises THEN "raised"
                                               ELSE "returned", hs)
                  /\ LET p == IF raises THEN RaisePc(op[t])
                              ELSE IF op[t] = "stop"
                                   THEN CleanupPc(protocol)
                                   ELSE "started"
                     IN /\ pc' = [pc EXCEPT ![t] = p]
                        /\ op' = [op EXCEPT ![t] = AfterOp(op[t], p)]
                        /\ cap' = [cap EXCEPT ![t] = protocol]
                  /\ UNCHANGED <<ch_stopping, ch_cons_tag, ch_cons_fut, log,
                                 ci, timer, exc, elapsed, oldLeft>>
    /\ UNCHANGED <<callVars, cbVars,
                   supVars, conns, ch_channel, ch_cons_cnt, prep_i, envVars,
                   redisVars, attempts, outcomes, inHandler, invalid>>

(* ------------------------------- Amqp.stop ---------------------------- *)
\* The host calls stop() after start(): "_started = False;
\* _shutting_down = True", _stop_channels() with "_consuming = False",
\* then _cleanup().
AmqpStop ==
    /\ op[Main] = "start" /\ pc[Main] \in {"started", "start_failed"}
    /\ started' = FALSE
    /\ shutting_down' = TRUE
    /\ consuming' = FALSE
    /\ ChStopCall(Main, "stop", Visit(StopSeq, StopSeq[1]), <<>>, lastStop)
    /\ UNCHANGED <<callVars, cbVars,
                   connect_max_attempts, transport, protocol, libVars,
                   ch_channel, ch_cons_cnt, ch_cons_fut, prep_i, envVars,
                   redisVars, attempts, outcomes, inHandler, invalid>>

(* ----------------------------- Channel.consume ------------------------ *)
\* _cons_fut of channel c once consume() got past its first statement,
\* "if not asyncio.iscoroutinefunction(fn): raise UserWarning()": the
\* new future is made after it.
ConsFutMut(c, coro) == "pending"
ConsFut(c, coro) == IF coro THEN "pending" ELSE ch_cons_fut[c]

\* The host registers a consumer on channel c with a handler that is a
\* coroutine function or is not: UserWarning for one that is not; else
\* a new future, then "await self.channel.basic_consume(...)", which
\* raises at once without a handle.
Consume(c, coro) ==
    /\ op[Main] = "start" /\ pc[Main] = "started"
    /\ lastConsume' = IF coro THEN "none" ELSE "UserWarning"
    /\ ch_cons_fut' = [ch_cons_fut EXCEPT ![c] = ConsFut(c, coro)]
    /\ IF ~coro \/ ch_channel[c] = None
       THEN UNCHANGED <<op, pc, ci, cap>>
       ELSE /\ op' = [op EXCEPT ![Main] = "ch_consume"]
            /\ pc' = [pc EXCEPT ![Main] = "ch_consume"]
            /\ ci' = [ci EXCEPT ![Main] = c]
            /\ cap' = [cap EXCEPT ![Main] = ch_channel[c]]
    /\ UNCHANGED <<callVars, lastExit,
                   supVars, libVars, ch_channel, ch_stopping, ch_cons_cnt,
                   ch_cons_tag, prep_i, exc, timer, envVars, redisVars,
                   obsVars>>

\* basic_consume is over: on an open handle the consumer is registered and
\* "_cons_tag = res['consumer_tag']"; on a closed one it raised.
ConsumeDone(t) ==
    /\ pc[t] = "ch_consume"
    /\ IF handles[cap[t]].open
       THEN /\ handles' = [handles EXCEPT ![cap[t]].consumer = TRUE]
            /\ ch_cons_tag' = [ch_cons_tag EXCEPT ![ci[t]] = TRUE]
       ELSE UNCHANGED <<handles, ch_cons_tag>>
    /\ pc' = [pc EXCEPT ![t] = "started"]
    /\ op' = [op EXCEPT ![t] = "start"]
    /\ UNCHANGED <<callVars, cbVars,
                   supVars, conns, ch_channel, ch_stopping, ch_cons_cnt,
                   ch_cons_fut, ci, cap, prep_i, exc, timer, envVars,
                   redisVars, obsVars>>

(* ------------------------ Channel._consume_callback ------------------- *)
\* consume(): "callback = partial(self._consume_callback, fn)" is what
\* basic_consume registers; _consume_callback_handler, which would hand the
\* delivery to async_call and return, is registered nowhere.
Registered == "_consume_callback"

\* Whether the library can call the registered callback for one more
\* delivery of channel c: a callback that returns at once never holds it up;
\* _consume_callback ends only when the user's handler has, and a library
\* that awaits it reads no further delivery until then.
CanDispatch(c) ==
    \/ Registered = "_consume_callback_handler"
    \/ ~lib_awaits
    \/ \A x \in Channels : inHandler[x] = 0

\* The library calls the registered callback with a delivery of handle h:
\* "if not channel.is_open: return", "_cons_cnt += 1", and the user's
\* handler is awaited.
Deliver(h) ==
    /\ h \in DOMAIN handles
    /\ handles[h].consumer
    /\ handles[h].open
    /\ CanDispatch(handles[h].ch)
    /\ inHandler[handles[h].ch] < MaxInFlight
    /\ ch_cons_cnt' = [ch_cons_cnt EXCEPT ![handles[h].ch] = @ + 1]
    /\ inHandler' = [inHandler EXCEPT ![handles[h].ch] = @ + 1]
    /\ UNCHANGED <<callVars, cbVars,
                   supVars, libVars, ch_channel, ch_stopping, ch_cons_fut,
                   ch_cons_tag, taskVars, envVars, redisVars, attempts,
                   outcomes, oldLeft, log, elapsed, lastStop, invalid>>

\* "finally: self._cons_cnt -= 1"
CountAfterMut(n, raised) == IF raised THEN n ELSE n - 1
CountAfter(n, raised) == n - 1

\* "if self._stopping and self._cons_cnt == 0 and self._cons_fut"
Drained(c, n) == ch_stopping[c] /\ n = 0 /\ ch_cons_fut[c] # "none"

\* What the callback ends with: "except Exception as err: ... raise"
\* re-raises the handler's exception, and an exception raised by
\* set_result inside the finally block takes its place.
ExitOf(raised, setResultRaises) ==
    IF setResultRaises THEN "InvalidStateError"
    ELSE IF raised THEN "handler_error" ELSE "returned"

\* The user's handler of one callback of channel c is over, returning or
\* raising: the finally block decrements the count and resolves the drain
\* future; set_result on a future that is done raises InvalidStateError.
\* old: the callback was in flight when stop() was last called.
Finish(c, raised, old) ==
    /\ inHandler[c] > 0
    /\ IF old THEN oldLeft[c] > 0 ELSE inHandler[c] > oldLeft[c]
    /\ inHandler' = [inHandler EXCEPT ![c] = @ - 1]
    /\ oldLeft' = [oldLeft EXCEPT ![c] = IF old THEN @ - 1 ELSE @]
    /\ LET n == CountAfter(ch_cons_cnt[c], raised)
       IN /\ ch_cons_cnt' = [ch_cons_cnt EXCEPT ![c] = n]
          /\ IF Drained(c, n)
             THEN /\ ch_cons_fut' = [ch_cons_fut EXCEPT ![c] =
                                       IF @ = "pending" THEN "resolved" ELSE @]
                  /\ invalid' = (invalid \/ ch_cons_fut[c] # "pending")
             ELSE UNCHANGED <<ch_cons_fut, invalid>>
          /\ lastExit' = [raised |-> raised,
                          out |-> ExitOf(raised, Drained(c, n)
                                           /\ ch_cons_fut[c] # "pending")]
    /\ UNCHANGED <<callVars, lastConsume,
                   supVars, libVars, ch_channel, ch_stopping, ch_cons_tag,
                   taskVars, envVars, redisVars, attempts, outcomes, log,
                   elapsed, lastStop>>

(* --------------------- the host driving one Channel ------------------- *)
TheChannel == 1

\* The host calls start() of the channel.
HostChStart ==
    /\ op[Main] = "start" /\ pc[Main] = "started"
    /\ Len(handles) < NumChannels + MaxRestarts
    /\ ChStartCall(Main, "ch_start", TheChannel, protocol, <<>>)
    /\ UNCHANGED <<callVars, cbVars,
                   supVars, libVars, ch_channel, ch_cons_cnt, ch_cons_fut,
                   ch_cons_tag, prep_i, exc, timer, envVars, redisVars,
                   attempts, outcomes, inHandler, oldLeft, elapsed, lastStop,
                   invalid>>

\* The host calls stop() of the channel.
HostChStop ==
    /\ op[Main] = "start" /\ pc[Main] = "started"
    /\ ChStopCall(Main, "ch_stop", <<TheChannel>>, <<>>, lastStop)
    /\ UNCHANGED <<callVars, cbVars,
                   supVars, libVars, ch_channel, ch_cons_cnt, ch_cons_fut,
                   prep_i, envVars, redisVars, attempts, outcomes, inHandler,
                   invalid>>

(* ------------------------------ the supervisor ------------------------ *)
AmqpNext ==
    \/ Prepare
    \/ PrepareSleepDone
    \/ AmqpStart
    \/ AmqpStop
    \/ \E k \in 1..MaxConns : ConError(k)
    \/ \E t \in Tasks :
         \/ ReconnectRun(t)
         \/ CleanupDone(t)
         \/ FromUrlOk(t)
         \/ FromUrlFail(t)
         \/ ChCloseDone(t)
         \/ ChAcquireOk(t)
         \/ ChAcquireFail(t)
         \/ ChStopCloseDone(t)

Spec == Init /\ [][AmqpNext]_vars

(* --------------------------- one started Channel ---------------------- *)
\* The supervisor after prepare() and start() went through on the first
\* attempt; from here the host drives the first channel.
StartedInit ==
    /\ connect_max_attempts \in 1..MaxAttempts
    /\ started = TRUE
    /\ shutting_down = FALSE
    /\ consuming = TRUE
    /\ transport = 1
    /\ protocol = 1
    /\ conns = <<[live |-> TRUE, errored |-> FALSE]>>
    /\ handles = [c \in Channels |->
                    [conn |-> 1, ch |-> c, open |-> TRUE, consumer |-> FALSE]]
    /\ ch_channel = [c \in Channels |-> c]
    /\ ch_stopping = [c \in Channels |-> FALSE]
    /\ ch_cons_cnt = [c \in Channels |-> 0]
    /\ ch_cons_fut = [c \in Channels |-> "none"]
    /\ ch_cons_tag = [c \in Channels |-> FALSE]
    /\ op = [t \in Tasks |-> IF t = Main THEN "start" ELSE "none"]
    /\ pc = [t \in Tasks |-> IF t = Main THEN "started" ELSE "init"]
    /\ ci = [t \in Tasks |-> IF t = Main THEN NumChannels ELSE 0]
    /\ cap = [t \in Tasks |-> IF t = Main THEN 1 ELSE None]
    /\ prep_i = 0
    /\ exc = "none"
    /\ timer = 0
    /\ nfail = 0
    /\ nerr = 0
    /\ lib_awaits \in BOOLEAN
    /\ RedisInit /\ r_max_attempts = MaxAttempts
    /\ attempts = 1
    /\ outcomes = <<"ok">>
    /\ inHandler = [c \in Channels |-> 0]
    /\ oldLeft = [c \in Channels |-> 0]
    /\ log = [t \in Tasks |-> IF t = Main THEN StartSeq ELSE <<>>]
    /\ elapsed = 0
    /\ lastStop = [ret |-> "none", cnt |-> 0, old |-> 0, elapsed |-> 0,
                   closed |-> FALSE]
    /\ invalid = FALSE
    /\ CallInit /\ CbInit

ChannelNext ==
    \/ HostChStart
    \/ HostChStop
    \/ \E coro \in BOOLEAN : Consume(TheChannel, coro)
    \/ ConsumeDone(Main)
    \/ ChCloseDone(Main)
    \/ ChAcquireOk(Main)
    \/ ChCancelDone(Main)
    \/ ChWaitDone(Main)
    \/ ChWaitTimeout(Main)
    \/ ChStopCloseDone(Main)
    \/ \E h \in 1..(NumChannels + MaxRestarts) : Deliver(h)
    \/ \E raised, old \in BOOLEAN : Finish(TheChannel, raised, old)
    \/ Tick

SpecChannel == StartedInit /\ [][ChannelNext]_vars

(* ------------------- stopping a supervisor that consumes -------------- *)
\* From the same state the host registers consumers on any channel,
\* deliveries arrive, and the host calls the supervisor's stop().
StopNext ==
    \/ AmqpStop
    \/ \E c \in Channels, coro \in BOOLEAN : Consume(c, coro)
    \/ ConsumeDone(Main)
    \/ ChCancelDone(Main)
    \/ ChWaitDone(Main)
    \/ ChWaitTimeout(Main)
    \/ ChStopCloseDone(Main)
    \/ CleanupDone(Main)
    \/ \E h \in 1..NumChannels : Deliver(h)
    \/ \E c \in Channels, raised, old \in BOOLEAN : Finish(c, raised, old)
    \/ Tick

SpecStop == StartedInit /\ [][StopNext]_vars

(* --------------- Channel.publish, ack, nack; Redis.execute ------------ *)
AmqpOps == {"publish", "ack", "nack"}
RedisOps == {"execute", "execute_pubsub"}

\* What the operations below leave alone.
progVars == <<supVars, libVars, chVars, taskVars, envVars, redisVars,
              obsVars, cbVars, ch_names, ctor>>

\* dict.update(t) on h: the keys of t are set, the others stay.
UpdateMut(h, t) == t
Update(h, t) ==
    [k \in DOMAIN h \cup DOMAIN t |-> IF k \in DOMAIN t THEN t[k] ELSE h[k]]

\* publish(): "properties = properties or {}; if 'headers' not in
\* properties: properties['headers'] = {};
\* properties['headers'].update(headers)"
Inject(props) ==
    [dict |-> TRUE, has_headers |-> TRUE,
     headers |-> Update(IF props.dict /\ props.has_headers
                        THEN props.headers ELSE EmptyHeaders,
                        MakeHeaders)]

\* The properties basic_publish is called with: the injection happens
\* under "if context_span:" and "if propagate_trace:".
SentProps(span, propagate, props) ==
    IF span /\ propagate THEN Inject(props) ELSE props

\* The host calls publish(), ack() or nack(): the span is started and the
\* primitive (basic_publish, basic_client_ack, basic_client_nack) is
\* called and awaited.
CallAmqp(o, span, propagate, props) ==
    /\ call.pc = "idle"
    /\ call' = [IdleCall EXCEPT
                  !.op = o, !.pc = "primitive", !.span = span,
                  !.propagate = propagate, !.props = props,
                  !.sent = IF o = "publish"
                           THEN SentProps(span, propagate, props)
                           ELSE props,
                  !.prims = 1]
    /\ UNCHANGED <<progVars, pool_out, tmp_open>>

\* The calls of span.finish the operation o makes once its primitive
\* ended: publish and _ack_nack finish in the try block or in the except
\* clause; Connection.execute and execute_pubsub finish in the except
\* clause and in the finally block.
FinishesAfter(o, failed) ==
    IF ~failed THEN <<"ok">>
    ELSE IF o \in AmqpOps THEN <<"error">> ELSE <<"error", "ok">>

\* __aexit__: "self._redis.pool.release(self._conn)", whatever the body
\* of the scope ended with.
ReleasesMut(failed) == IF failed THEN 0 ELSE 1
Releases(failed) == 1

\* __aenter__ raised: "except: span.finish(exception=e); raise" and
\* "finally: span.finish()"; the scope is not entered.
AcquireFailed(c) ==
    [c EXCEPT !.pc = "idle", !.outcome = "acquire_error",
              !.acq_fin = IF c.span THEN <<"error", "ok">> ELSE <<>>,
              !.ret = "raised"]

\* The host calls Redis.execute(), or opens the connection scope and
\* calls execute_pubsub() in it: __aenter__ starts its span and awaits
\* pool.acquire(); without a pool (prepare() has not returned) the
\* attribute access on None raises at once.
CallRedis(o, span) ==
    /\ call.pc = "idle"
    /\ call' = IF r_pool
               THEN [IdleCall EXCEPT !.op = o, !.pc = "acquire",
                                     !.span = span]
               ELSE AcquireFailed([IdleCall EXCEPT !.op = o, !.span = span])
    /\ UNCHANGED <<progVars, pool_out, tmp_open>>

\* pool.acquire() is over.  On failure __aenter__ raises; otherwise the
\* primitive (conn.execute, conn.execute_pubsub) is called and awaited.
AcquireDone(failed) ==
    /\ call.pc = "acquire"
    /\ IF failed
       THEN /\ call' = AcquireFailed(call)
            /\ UNCHANGED pool_out
       ELSE /\ call' = [call EXCEPT
                          !.pc = "primitive", !.acq = 1, !.prims = 1,
                          !.acq_fin = IF call.span THEN <<"ok">> ELSE <<>>]
            /\ pool_out' = pool_out + 1
    /\ UNCHANGED <<progVars, tmp_open>>

\* The awaited primitive returned or raised: the span is finished, the
\* scope of a store operation is left, the operation returns or re-raises.
PrimitiveDone(failed) ==
    /\ call.pc = "primitive"
    /\ LET rel == IF call.op \in RedisOps THEN Releases(failed) ELSE 0
       IN /\ call' = [call EXCEPT
                        !.pc = "idle",
                        !.outcome = IF failed THEN "error" ELSE "ok",
                        !.fin = IF call.span
                                THEN FinishesAfter(call.op, failed)
                                ELSE <<>>,
                        !.rel = rel,
                        !.ret = IF failed THEN "raised" ELSE "returned"]
          /\ pool_out' = pool_out - rel
    /\ UNCHANGED <<progVars, tmp_open>>

(* --------- Channel._safe_declare_queue, _safe_declare_exchange -------- *)
DeclOps == {"declare_queue", "declare_exchange"}

\* How the awaited queue_declare / exchange_declare ends: with a result,
\* with ChannelClosed of code 406 or of another code, or with another
\* exception.
DeclareOutcomes == {"ok", "closed_406", "closed_other", "error"}

\* "except aioamqp.exceptions.ChannelClosed as e: if e.code == 406:
\* return None else: raise"
SwallowsMut(out) == out \in {"closed_406", "closed_other"}
Swallows(out) == out = "closed_406"

\* The host calls a declare: "ch = await self.amqp._protocol.channel()";
\* without a protocol the attribute access on None raises at once.
CallDeclare(o) ==
    /\ call.pc = "idle"
    /\ call' = IF protocol # None
               THEN [IdleCall EXCEPT !.op = o, !.pc = "decl_channel"]
               ELSE [IdleCall EXCEPT !.op = o, !.outcome = "channel_error",
                                     !.ret = "raised"]
    /\ UNCHANGED <<progVars, pool_out, tmp_open>>

\* protocol.channel() returned a handle of its own for the declare, or
\* raised (before the try block: the error propagates).  With a handle
\* the declare primitive is called and awaited.
DeclChannelDone(failed) ==
    /\ call.pc = "decl_channel"
    /\ IF failed
       THEN /\ call' = [call EXCEPT !.pc = "idle",
                                    !.outcome = "channel_error",
                                    !.ret = "raised"]
            /\ UNCHANGED tmp_open
       ELSE /\ call' = [call EXCEPT !.pc = "declare", !.prims = 1]
            /\ tmp_open' = TRUE
    /\ UNCHANGED <<progVars, pool_out>>

\* The declare primitive ended with out, "open" telling whether the
\* handle is open afterwards: the library raises ChannelClosed for a
\* handle that is closed.  "finally: if ch.is_open: await ch.close()":
\* with a closed handle the declare returns or raises at once, with an
\* open one it awaits the close first.
DeclareDone(out, open) ==
    /\ call.pc = "declare"
    /\ out \in {"closed_406", "closed_other"} => ~open
    /\ tmp_open' = open
    /\ call' = [call EXCEPT
                  !.outcome = out,
                  !.pc = IF open THEN "decl_close" ELSE "idle",
                  !.ret = IF open THEN "none"
                          ELSE IF out = "ok" THEN "res"
                          ELSE IF Swallows(out) THEN "None"
                          ELSE "raised"]
    /\ UNCHANGED <<progVars, pool_out>>

\* ch.close() in the finally block ended: the library marks the handle
\* closed when close() is entered.  Its failure propagates; otherwise
\* the declare returns its result or re-raises its exception.
DeclCloseDone(failed) ==
    /\ call.pc = "decl_close"
    /\ tmp_open' = FALSE
    /\ call' = [call EXCEPT
                  !.pc = "idle",
                  !.ret = IF failed \/ call.outcome # "ok" THEN "raised"
                          ELSE "res"]
    /\ UNCHANGED <<progVars, pool_out>>

\* A started supervisor; the store component is constructed.
OpsInit ==
    /\ StartedInit
    /\ connect_max_attempts = MaxAttempts
    /\ lib_awaits = TRUE

OpsNext ==
    \/ \E span, propagate \in BOOLEAN, props \in PropsArgs :
         CallAmqp("publish", span, propagate, props)
    \/ \E o \in {"ack", "nack"}, span \in BOOLEAN :
         CallAmqp(o, span, FALSE, NoProps)
    \/ \E o \in RedisOps, span \in BOOLEAN : CallRedis(o, span)
    \/ \E failed \in BOOLEAN : AcquireDone(failed)
    \/ \E failed \in BOOLEAN : PrimitiveDone(failed)
    \/ \E o \in DeclOps : CallDeclare(o)
    \/ \E failed \in BOOLEAN : DeclChannelDone(failed)
    \/ \E out \in DeclareOutcomes, open \in BOOLEAN : DeclareDone(out, open)
    \/ \E failed \in BOOLEAN : DeclCloseDone(failed)
    \/ RedisPrepare
    \/ RedisConnectOk
    \/ RedisConnectFail
    \/ RedisSleepDone

SpecOps == OpsInit /\ [][OpsNext]_vars

(* ======================= properties: the connect loops ================ *)
\* k - 1 failures followed by one success
FailsThenOk(s) ==
    /\ Len(s) >= 1
    /\ s[Len(s)] = "ok"
    /\ \A j \in 1..(Len(s) - 1) : s[j] = "fail"

AllFail(s) == \A j \in 1..Len(s) : s[j] = "fail"

\* C1: with connect_max_attempts = N, prepare() that returns has made
\* exactly k <= N connect attempts, the first k - 1 failed and the k-th
\* succeeded; prepare() that raised PrepareError has made exactly N
\* attempts, all failed; and no attempt is ever made after a success or
\* beyond the N-th.  For Amqp.prepare() and for Redis.prepare().
C1_PrepareAttempts ==
    /\ attempts <= connect_max_attempts
    /\ Len(outcomes) <= attempts
    /\ AllFail(SubSeq(outcomes, 1, Len(outcomes) - 1))
    /\ pc[Main] = "prepared" =>
          FailsThenOk(outcomes) /\ attempts = Len(outcomes)
    /\ pc[Main] = "prepare_failed" =>
          AllFail(outcomes) /\ attempts = connect_max_attempts
                            /\ Len(outcomes) = connect_max_attempts
    /\ r_attempts <= r_max_attempts
    /\ Len(r_outcomes) <= r_attempts
    /\ AllFail(SubSeq(r_outcomes, 1, Len(r_outcomes) - 1))
    /\ r_pc = "prepared" =>
          FailsThenOk(r_outcomes) /\ r_attempts = Len(r_outcomes)
    /\ r_pc = "prepare_failed" =>
          AllFail(r_outcomes) /\ r_attempts = r_max_attempts
                              /\ Len(r_outcomes) = r_max_attempts

\* Amqp.prepare() returned on its last allowed attempt after a failure,
\* and Redis.prepare() raised after all its attempts failed.
C1_Witness ==
    /\ connect_max_attempts = MaxAttempts /\ MaxAttempts >= 2
    /\ pc[Main] = "prepared" /\ attempts = connect_max_attempts
    /\ r_max_attempts >= 2
    /\ r_pc = "prepare_failed" /\ r_attempts = r_max_attempts


(* ======================== properties: the constructor ================= *)
\* Two channels of the list carry the same name.
Clash(ns) ==
    \E i, j \in 1..Len(ns) : i < j /\ ns[i] # None /\ ns[i] = ns[j]

\* C12: the constructor raises exactly for a channel list in which two
\* channels share a non-null name, whatever the number of unnamed
\* channels; and no connect attempt is made before it ended or after it
\* raised.
C12_UniqueNames ==
    /\ ctor = "UserWarning" => Clash(ch_names)
    /\ ctor = "ok" => ~Clash(ch_names)
    /\ ctor # "ok" => /\ attempts = 0 /\ conns = <<>>
                      /\ op[Main] = "none" /\ pc[Main] = "init"

\* The constructor raised for a list with two unnamed channels and two
\* channels of one name.
C12_Witness ==
    /\ ctor = "UserWarning"
    /\ Len(ch_names) = 4
    /\ ch_names[1] = None /\ ch_names[3] = None
    /\ ch_names[2] = ch_names[4]

(* ======================== properties: the supervisor ================== *)
\* C3, as specified: the supervisor holds at most one live connection:
\* every connection from_url established and nobody closed is the one
\* the supervisor references.  Stated for a supervisor whose stop() was
\* never called, where only prepare() and reconnects make connections.
C3_OneLiveConnection ==
    ~shutting_down => \A k \in DOMAIN conns : conns[k].live => protocol = k

\* C4, as specified: after stop() completed the supervisor is terminally
\* disconnected: it holds no connection, no connection it made is live,
\* and no task is in a connect attempt or restarts a channel.
C4_StopIsTerminal ==
    (op[Main] = "stop" /\ pc[Main] = "stopped") =>
        /\ protocol = None /\ transport = None
        /\ \A k \in DOMAIN conns : ~conns[k].live
        /\ \A t \in Tasks \ {Main} : pc[t] \in {"init", "scheduled", "done"}

\* No coroutine of the supervisor is suspended or scheduled.
Quiescent ==
    /\ op[Main] = "start" /\ pc[Main] = "started"
    /\ \A t \in Tasks \ {Main} : pc[t] \in {"init", "done"}

\* Channel c holds an open handle of connection k.
RunsOn(c, k) ==
    /\ ch_channel[c] # None
    /\ handles[ch_channel[c]].conn = k
    /\ handles[ch_channel[c]].open

\* C5, as specified, at the end of the reconnects: once the connection of a
\* started supervisor dropped and every reconnect that was scheduled has
\* returned, the supervisor holds a live connection and every channel
\* was restarted on that connection.
C5_ReconnectRestartsChannels ==
    (Quiescent /\ nerr >= 1) =>
        /\ protocol # None /\ conns[protocol].live
        /\ \A c \in Channels : RunsOn(c, protocol)

\* C11: the error callback schedules a reconnect exactly when the
\* supervisor is started and not shutting down; the reconnect is a new
\* task that has not run yet, and the callback itself changes nothing
\* of the supervisor: no teardown, no connect attempt, no other task
\* touched.
C11_ErrorCallback ==
    [][nerr' # nerr =>
          /\ UNCHANGED <<supVars, attempts, ch_channel, cap>>
          /\ Len(conns') = Len(conns)
          /\ \A t \in Tasks \ {nerr'} : pc'[t] = pc[t] /\ op'[t] = op[t]
          /\ IF started /\ ~shutting_down
             THEN /\ op[nerr'] = "none" /\ pc[nerr'] = "init"
                  /\ op'[nerr'] = "reconnect" /\ pc'[nerr'] = "scheduled"
             ELSE UNCHANGED <<op, pc>>]_vars

\* One error callback scheduled a reconnect, a later one, fired while
\* the supervisor was shutting down, scheduled nothing.
C11_Witness ==
    /\ nerr = 2 /\ shutting_down
    /\ op[1] = "reconnect"
    /\ op[2] = "none" /\ pc[2] = "init"

IsPrefix(s, S) == Len(s) <= Len(S) /\ \A j \in 1..Len(s) : s[j] = S[j]

\* C6: the loop of start() and of every restart calls the channels'
\* start() in declared order and the loop of stop() calls their stop() in
\* the reverse order, one call being over before the next is made; a
\* start() or stop() that returned has gone through all of them.
C6_StartStopOrder ==
    /\ \A t \in Tasks :
          /\ op[t] \in {"start", "reconnect"} => IsPrefix(log[t], StartSeq)
          /\ op[t] = "stop" => IsPrefix(log[t], StopSeq)
    /\ (op[Main] = "start" /\ pc[Main] = "started") => log[Main] = StartSeq
    /\ (op[Main] = "stop" /\ pc[Main] = "stopped") =>
          /\ log[Main] = StopSeq
          /\ log[Main][NumChannels] = StartSeq[1]

\* stop() returned after a reconnect had restarted all channels.
C6_Witness ==
    /\ op[Main] = "stop" /\ pc[Main] = "stopped"
    /\ log[Main] = StopSeq
    /\ \E t \in Tasks \ {Main} : pc[t] = "done" /\ log[t] = StartSeq

\* C7, as specified: a stop() of the supervisor that is over, returning or
\* raising, has stopped every channel in reverse order and has cleared
\* protocol and transport.
C7_StopStopsAll ==
    (op[Main] = "stop" /\ pc[Main] \in {"stopped", "stop_failed"}) =>
        /\ log[Main] = StopSeq
        /\ \A c \in Channels : ch_stopping[c]
        /\ protocol = None /\ transport = None

\* C13, as specified: a close() that fails during teardown never
\* propagates to the caller.  _cleanup() and Channel.open() go on after
\* a failed close (CleanupDone, ChCloseDone); what is left to state is
\* the close() at the end of Channel.stop(): the supervisor's stop()
\* never raises with no exception pending from the drain wait, that is,
\* because of the close() alone.
C13_CloseFailureSwallowed ==
    ~(op[Main] = "stop" /\ pc[Main] = "stop_failed" /\ exc = "none")

(* ========================= properties: Channel.stop =================== *)
\* C2: when Channel.stop() returns, either no callback is in flight or
\* at least STOP_TIMEOUT has elapsed since stop was requested; and the
\* channel handle is closed.
C2_StopDrainedOrTimedOut ==
    lastStop.ret = "returned" =>
        /\ lastStop.cnt = 0 \/ lastStop.elapsed >= STOP_TIMEOUT
        /\ lastStop.closed


(* ===================== properties: consumer callbacks ================= *)
\* C8: a channel's in-flight count is never negative and always equals
\* the number of dispatched callbacks that have entered and not yet left
\* the handler; so it is 0 exactly when none is running.
C8_CountIsInFlight ==
    \A c \in Channels :
        /\ ch_cons_cnt[c] >= 0
        /\ ch_cons_cnt[c] = inHandler[c]
        /\ (ch_cons_cnt[c] = 0) <=> (inHandler[c] = 0)

\* Callbacks are in flight again after the count went to 0 during a stop.
C8_Witness ==
    /\ ch_cons_fut[TheChannel] = "resolved"
    /\ ch_cons_cnt[TheChannel] >= 2

\* C14, as specified: a callback whose handler raised ends by raising
\* that same exception.  (Its count is decremented once, C8, and the
\* drain future is resolved at count 0 while stopping.)
C14_HandlerErrorReraised ==
    lastExit.raised => lastExit.out = "handler_error"

\* C9, as specified: with n >= 1 callbacks in flight when stop() is called,
\* all of which finish before the timeout, the handle is closed (stop()
\* is over) only after the last of them finished.  Here stop() is over
\* before the timeout elapsed and the n callbacks have all finished by
\* now: then none of them was running when stop() ended.
C9_ClosedAfterDrain ==
    (/\ lastStop.ret # "none"
     /\ pc[Main] = "started"
     /\ lastStop.elapsed < STOP_TIMEOUT
     /\ oldLeft[TheChannel] = 0) => lastStop.old = 0

\* C10, as specified: a handler that has not finished does not keep the
\* handler of a later delivery from starting: on an open handle with a
\* registered consumer, the next delivery can be dispatched while others
\* are in flight.
C10_IndependentDispatch ==
    \A h \in DOMAIN handles :
        (/\ handles[h].open /\ handles[h].consumer
         /\ inHandler[handles[h].ch] >= 1
         /\ inHandler[handles[h].ch] < MaxInFlight) => ENABLED Deliver(h)

(* ======================= properties: Channel.open ===================== *)
\* The handles acquired for channel c that are open.
OpenHandlesOf(c) ==
    {h \in DOMAIN handles : handles[h].ch = c /\ handles[h].open}

\* C19, as specified: open() closes the handle the Channel held before
\* it acquires a fresh one, so that at no time more than one handle
\* acquired for a Channel is open, and a Channel no open() is running
\* on holds the open handle there is.
C19_OpenIdempotent ==
    \A c \in Channels :
        /\ Cardinality(OpenHandlesOf(c)) <= 1
        /\ (\A t \in Tasks : ~(pc[t] \in {"ch_close", "ch_acquire"}
                                /\ ci[t] = c)) =>
               OpenHandlesOf(c) \subseteq {ch_channel[c]}

(* ==================== properties: the drain future ==================== *)
\* set_result was never called on a future that was resolved or
\* cancelled before.
ResolvedOnce == ~invalid

\* A stop() that waits on a future that is done waits on one that its
\* own callbacks resolved: none of them is in flight.
NoStaleSignal ==
    \A t \in Tasks :
        (pc[t] = "ch_wait" /\ ch_cons_fut[ci[t]] # "pending") =>
            ch_cons_cnt[ci[t]] = 0

\* C21, as specified: under any interleaving of deliveries, handler
\* completions, stop() and later start()/stop() cycles, the drain
\* future of a Channel is resolved at most once and never after it was
\* resolved or cancelled, and no stop() takes a future that an earlier
\* stop left done for the proof that its callbacks have drained.
C21_DrainSignalOnce == ResolvedOnce /\ NoStaleSignal

(* ====================== properties: Channel.consume =================== *)
\* C20: a consume() call that fails with UserWarning for its handler
\* sends no registration (no handle gets a consumer, the caller awaits
\* nothing) and leaves the consumer tag, the future, the count and the
\* stopping flag of every Channel as they were.
C20_ConsumeRejected ==
    [][(lastConsume # "UserWarning" /\ lastConsume' = "UserWarning") =>
          UNCHANGED <<chVars, libVars, op, pc>>]_vars

\* consume() was rejected on a channel that has no future and no
\* consumer tag yet.
C20_Witness ==
    /\ lastConsume = "UserWarning"
    /\ pc[Main] = "started"
    /\ ch_cons_fut[TheChannel] = "none"
    /\ ~ch_cons_tag[TheChannel]
    /\ ch_channel[TheChannel] # None

(* ================== properties: single operations ===================== *)
\* C15, as specified: a publish, ack, nack, execute or execute_pubsub
\* whose primitive ended has invoked it once; when it raised, the
\* operation re-raises and its span was finished once, as failed; when
\* it returned, the operation returns and its span was finished once,
\* normally.
C15_SpanFinishedOnce ==
    (call.pc = "idle" /\ call.outcome \in {"ok", "error"}
     /\ call.op \in AmqpOps \cup RedisOps) =>
        /\ call.prims = 1
        /\ call.ret = IF call.outcome = "error" THEN "raised" ELSE "returned"
        /\ call.fin = IF ~call.span THEN <<>>
                      ELSE IF call.outcome = "error" THEN <<"error">>
                      ELSE <<"ok">>

\* C16: the connection scope releases exactly what it acquired: while
\* the command runs one connection is out, after the operation none is,
\* whether the command returned or raised; and a failed acquire
\* acquires and releases nothing.
C16_ReleasedOnce ==
    /\ pool_out = call.acq - call.rel
    /\ pool_out \in {0, 1}
    /\ call.pc = "idle" => pool_out = 0 /\ call.rel = call.acq
    /\ call.outcome = "acquire_error" => call.acq = 0 /\ call.rel = 0

\* execute() whose command raised has released its connection.
C16_Witness ==
    /\ call.op = "execute" /\ call.pc = "idle"
    /\ call.outcome = "error" /\ call.ret = "raised"
    /\ call.acq = 1 /\ call.rel = 1

\* The headers of a properties argument; none without the key.
HeadersOf(props) ==
    IF props.dict /\ props.has_headers THEN props.headers ELSE EmptyHeaders

\* C18: publish() with a context span and propagate_trace sends headers
\* whose keys are the caller's and the trace keys, the trace keys with
\* the values of the context and every other key with the caller's
\* value; otherwise it sends the properties it was given.
C18_HeaderInjection ==
    call.op = "publish" =>
        IF call.span /\ call.propagate
        THEN /\ call.sent.dict /\ call.sent.has_headers
             /\ DOMAIN call.sent.headers =
                    DOMAIN HeadersOf(call.props) \cup TraceKeys
             /\ \A k \in TraceKeys : call.sent.headers[k] = "ctx"
             /\ \A k \in DOMAIN HeadersOf(call.props) \ TraceKeys :
                    call.sent.headers[k] = HeadersOf(call.props)[k]
        ELSE call.sent = call.props

\* A publish that injected into headers holding a key of the caller and
\* a trace key returned.
C18_Witness ==
    /\ call.op = "publish" /\ call.ret = "returned"
    /\ call.span /\ call.propagate
    /\ call.props.has_headers
    /\ DOMAIN call.props.headers = TraceKeys \cup UserKeys

\* C17: a declare whose primitive ended with ChannelClosed of code 406
\* returns None; one whose primitive ended with another failure raises;
\* however the declare ends, the handle it opened for itself is not
\* open afterwards; and no step of a declare changes the Channel's own
\* handle or any other field of the Channel, nor the handles the
\* library holds for the channels.
C17_SafeDeclare ==
    [][(call' # call /\ call'.op \in DeclOps) =>
          /\ UNCHANGED <<chVars, libVars>>
          /\ call'.pc = "idle" =>
                /\ ~tmp_open'
                /\ call'.outcome = "closed_406" => call'.ret = "None"
                /\ call'.outcome \in {"closed_other", "error",
                                      "channel_error"} =>
                       call'.ret = "raised"
                /\ call'.ret = "res" => call'.outcome = "ok"]_vars

\* A declare rejected with code 406 returned None and its handle is not
\* open.
C17_Witness ==
    /\ call.op \in DeclOps /\ call.pc = "idle"
    /\ call.outcome = "closed_406" /\ call.ret = "None"
    /\ call.prims = 1 /\ ~tmp_open

==========================================================================
